---------------------------- MODULE Spec2Model ----------------------------
(***************************************************************************)
(* A model of src/app.py: one run of main(), from the parsed command line  *)
(* to the process's end.                                                   *)
(*                                                                         *)
(* Strings are sequences of one-character strings.  An optional argument   *)
(* of argparse (default None) is a sequence of length at most one: None is *)
(* <<>> and the value s is <<s>>.  A similarity score is an integer number *)
(* of ten-thousandths (0.8 is 8000, 0.8001 is 8001), the resolution of the *)
(* "{similarity:.4f}" score line.                                          *)
(*                                                                         *)
(* Environment: the command line and the file system are fixed when the    *)
(* run starts (Init); the answers typed at the prompts, the file chosen in *)
(* the dialog, the content of standard input and the outcome of the        *)
(* embedding model are chosen when the run reaches them.  Every input()    *)
(* prompt is answered with a line.                                         *)
(***************************************************************************)
EXTENDS Integers, Sequences, FiniteSets

VARIABLES args, fs, pc, query, text, manual_input, similarity, out, exitCode,
          uncaught, scorerCalls, consulted

vars == <<args, fs, pc, query, text, manual_input, similarity, out, exitCode,
          uncaught, scorerCalls, consulted>>

-----------------------------------------------------------------------------
(* Bounds of the model *)

MaxLen == 2

MaxQueryLen == 1

MaxFileLen == 1

ScoreMargin == 1

(* Program constants *)

SimScale == 10000

VeryHighThreshold == 8000

HighThreshold == 6000

ModerateThreshold == 4000

LowThreshold == 2000

-----------------------------------------------------------------------------
(* Strings *)

RECURSIVE StringsUpTo(_, _)
StringsUpTo(chars, n) ==
  IF n = 0 THEN {<<>>}
  ELSE LET shorter == StringsUpTo(chars, n - 1)
       IN  shorter \cup {Append(s, c) : s \in shorter, c \in chars}

None == <<>>

Some(s) == <<s>>

Optional(S) == {None} \cup {Some(s) : s \in S}

(* Python's truth value of an optional string argument: None and "" are false *)
Truthy(opt) == Len(opt) = 1 /\ Len(opt[1]) > 0

(* Python's truth value of a string: "" is false *)
NonEmpty(s) == Len(s) > 0

Whitespace == {" ", "\n"}

RECURSIVE LStrip(_)
LStrip(s) ==
  IF s = <<>> THEN <<>>
  ELSE IF Head(s) \in Whitespace THEN LStrip(Tail(s)) ELSE s

RECURSIVE RStrip(_)
RStrip(s) ==
  IF s = <<>> THEN <<>>
  ELSE IF s[Len(s)] \in Whitespace THEN RStrip(SubSeq(s, 1, Len(s) - 1)) ELSE s

(* str.strip() *)
Strip(s) == RStrip(LStrip(s))

LowerChar(c) == IF c = "Y" THEN "y" ELSE IF c = "N" THEN "n" ELSE c

(* the comparison without lower(): only a lower-case 'y' is accepted *)
LowerIdentity(s) == s

(* str.lower() *)
Lower(s) == [i \in 1..Len(s) |-> LowerChar(s[i])]

(* The lines a text-mode file object yields: each ends with its newline,
   except a last line that has none *)
RECURSIVE SplitLines(_, _)
SplitLines(s, cur) ==
  IF s = <<>> THEN (IF cur = <<>> THEN <<>> ELSE <<cur>>)
  ELSE IF Head(s) = "\n" THEN <<Append(cur, "\n")>> \o SplitLines(Tail(s), <<>>)
  ELSE SplitLines(Tail(s), Append(cur, Head(s)))

(* ''.join(lines) *)
RECURSIVE Join(_)
Join(lines) == IF lines = <<>> THEN <<>> ELSE Head(lines) \o Join(Tail(lines))

-----------------------------------------------------------------------------
(* The inputs of a run *)

QueryChars == {"q"}

TextChars == {"a", "\n"}

AnswerChars == {"y", "Y", "n"}

QueryStrings == StringsUpTo(QueryChars, MaxQueryLen)

TextStrings == StringsUpTo(TextChars, MaxLen)

FileContents == StringsUpTo(TextChars, MaxFileLen)

AnswerStrings == StringsUpTo(AnswerChars, MaxLen)

Paths == {<<"p">>}

(* a path of the file system: absent, present but not readable as UTF-8
   text, or a readable file with its content *)
FileStates ==
  {[st |-> "missing", data |-> <<>>], [st |-> "unreadable", data |-> <<>>]}
    \cup {[st |-> "ok", data |-> d] : d \in FileContents}

Thresholds == {VeryHighThreshold, HighThreshold, ModerateThreshold, LowThreshold}

(* sample scores: the ends of [-1, 1], zero, and every threshold with its
   neighbours *)
Scores ==
  {0 - SimScale, 0, SimScale}
    \cup {t + d : t \in Thresholds, d \in (0 - ScoreMargin)..ScoreMargin}

(* what the embedding step does: raises, or yields a score *)
EmbedOutcomes ==
  {[raised |-> TRUE, value |-> 0]} \cup {[raised |-> FALSE, value |-> s] : s \in Scores}

-----------------------------------------------------------------------------
(* Output lines *)

Line(kind, path, score, label) ==
  [kind |-> kind, path |-> path, score |-> score, label |-> label]

Msg(kind) == Line(kind, <<>>, 0, "")

Count(lines, kind) == Cardinality({i \in 1..Len(lines) : lines[i].kind = kind})

-----------------------------------------------------------------------------
(* The pure parts of the program *)

(* the chain with >= for >: a score on a threshold moves one bucket up *)
ClassifyNonStrict(s) ==
  IF s >= VeryHighThreshold THEN "Very high similarity"
  ELSE IF s >= HighThreshold THEN "High similarity"
  ELSE IF s >= ModerateThreshold THEN "Moderate similarity"
  ELSE IF s >= LowThreshold THEN "Low similarity"
  ELSE "Very low similarity"

(* the if/elif chain of main(), lines 113-122 *)
Classify(s) ==
  IF s > VeryHighThreshold THEN "Very high similarity"
  ELSE IF s > HighThreshold THEN "High similarity"
  ELSE IF s > ModerateThreshold THEN "Moderate similarity"
  ELSE IF s > LowThreshold THEN "Low similarity"
  ELSE "Very low similarity"

(* the function without its try/except: the failure propagates to main() *)
CalculateNoCatch(outcome) ==
  [raised |-> outcome.raised, ret |-> outcome.value, printed |-> <<>>]

(* calculate_cosine_similarity: the try block returns the score, the except
   clause prints and returns 0.0; nothing propagates *)
CalculateCosineSimilarity(outcome) ==
  IF outcome.raised
    THEN [raised |-> FALSE, ret |-> 0, printed |-> <<Msg("embedding_error")>>]
    ELSE [raised |-> FALSE, ret |-> outcome.value, printed |-> <<>>]

(* select_text_file: choice is what askopenfilename returned ("" on cancel) *)
SelectTextFile(choice, files) ==
  IF NonEmpty(choice)
    THEN IF files[choice].st = "ok"
           THEN [ret |-> files[choice].data, printed |-> <<>>]
           ELSE [ret |-> <<>>, printed |-> <<Line("read_error", choice, 0, "")>>]
    ELSE [ret |-> <<>>, printed |-> <<>>]

(* the chain with the --select_file test first *)
TextBranchSelectFirst(a) ==
  IF a.select_file THEN "picker"
  ELSE IF Truthy(a.text_file) THEN "text_file"
  ELSE IF Truthy(a.text) THEN "text"
  ELSE "picker"

(* which branch of the text resolution of main() runs, lines 75-84 *)
TextBranch(a) ==
  IF Truthy(a.text_file) THEN "text_file"
  ELSE IF Truthy(a.text) THEN "text"
  ELSE IF a.select_file \/ ~(Truthy(a.text_file) \/ Truthy(a.text)) THEN "picker"
  ELSE "none"

(* the condition without strip(): "if not text" *)
IsBlankNoStrip(s) == ~NonEmpty(s)

(* the condition of line 104 *)
IsBlank(s) == ~NonEmpty(Strip(s))

-----------------------------------------------------------------------------
(* The run *)

Init ==
  /\ args \in [query : Optional(QueryStrings),
               text_file : Optional({<<>>} \cup Paths),
               text : Optional(TextStrings),
               select_file : BOOLEAN]
  /\ fs \in [Paths -> FileStates]
  /\ pc = "query"
  /\ query = <<>>
  /\ text = <<>>
  /\ manual_input = <<>>
  /\ similarity = 0
  /\ out = <<>>
  /\ exitCode = <<>>
  /\ uncaught = FALSE
  /\ scorerCalls = <<>>
  /\ consulted = <<>>

(* sys.exit(code) *)
Exit(code) ==
  /\ pc' = "exited"
  /\ exitCode' = <<code>>

(* lines 69-70 with a query given *)
QueryFromArgs ==
  /\ pc = "query"
  /\ Truthy(args.query)
  /\ query' = args.query[1]
  /\ pc' = "text"
  /\ UNCHANGED <<args, fs, text, manual_input, similarity, out, exitCode,
                 uncaught, scorerCalls, consulted>>

(* lines 69-71 without one: the prompt's answer is the query, whatever it is *)
QueryFromPrompt ==
  /\ pc = "query"
  /\ ~Truthy(args.query)
  /\ \E answer \in QueryStrings : query' = answer
  /\ out' = Append(out, Msg("prompt_query"))
  /\ pc' = "text"
  /\ UNCHANGED <<args, fs, text, manual_input, similarity, exitCode, uncaught,
                 scorerCalls, consulted>>

(* lines 75-81 without the sys.exit(1) of line 81: the error is printed and
   the run goes on with the empty text *)
TextFromFileNoExit ==
  /\ pc = "text"
  /\ TextBranch(args) = "text_file"
  /\ LET path == args.text_file[1]
         f == fs[path]
     IN  /\ consulted' = Append(consulted, "text_file")
         /\ CASE f.st = "ok" ->
                   /\ text' = f.data
                   /\ pc' = "check_text"
                   /\ UNCHANGED <<out, exitCode, uncaught>>
              [] f.st = "missing" ->
                   /\ out' = Append(out, Line("file_not_found", path, 0, ""))
                   /\ pc' = "check_text"
                   /\ UNCHANGED <<text, exitCode, uncaught>>
              [] OTHER ->
                   /\ uncaught' = TRUE
                   /\ Exit(1)
                   /\ UNCHANGED <<text, out>>
  /\ UNCHANGED <<args, fs, query, manual_input, similarity, scorerCalls>>

(* lines 75-81 *)
TextFromFile ==
  /\ pc = "text"
  /\ TextBranch(args) = "text_file"
  /\ LET path == args.text_file[1]
         f == fs[path]
     IN  /\ consulted' = Append(consulted, "text_file")
         /\ CASE f.st = "ok" ->
                   /\ text' = f.data
                   /\ pc' = "check_text"
                   /\ UNCHANGED <<out, exitCode, uncaught>>
              [] f.st = "missing" ->
                   /\ out' = Append(out, Line("file_not_found", path, 0, ""))
                   /\ Exit(1)
                   /\ UNCHANGED <<text, uncaught>>
              [] OTHER ->
                   (* an exception other than FileNotFoundError is not caught *)
                   /\ uncaught' = TRUE
                   /\ Exit(1)
                   /\ UNCHANGED <<text, out>>
  /\ UNCHANGED <<args, fs, query, manual_input, similarity, scorerCalls>>

(* lines 82-83 *)
TextInline ==
  /\ pc = "text"
  /\ TextBranch(args) = "text"
  /\ text' = args.text[1]
  /\ consulted' = Append(consulted, "text")
  /\ pc' = "check_text"
  /\ UNCHANGED <<args, fs, query, manual_input, similarity, out, exitCode,
                 uncaught, scorerCalls>>

(* lines 84-88 *)
TextFromPicker ==
  /\ pc = "text"
  /\ TextBranch(args) = "picker"
  /\ \E choice \in {<<>>} \cup Paths :
       LET r == SelectTextFile(choice, fs)
       IN  /\ text' = r.ret
           /\ IF ~NonEmpty(r.ret)
                THEN /\ out' = out \o <<Msg("opening_dialog")>> \o r.printed
                                   \o <<Msg("no_file_selected")>>
                     /\ pc' = "ask_manual"
                ELSE /\ out' = out \o <<Msg("opening_dialog")>> \o r.printed
                     /\ pc' = "check_text"
  /\ consulted' = Append(consulted, "picker")
  /\ UNCHANGED <<args, fs, query, manual_input, similarity, exitCode, uncaught,
                 scorerCalls>>

(* lines 91-93 and 101-102 *)
AskManual ==
  /\ pc = "ask_manual"
  /\ \E answer \in AnswerStrings :
       /\ manual_input' = answer
       /\ IF Lower(answer) = <<"y">>
            THEN /\ out' = out \o <<Msg("prompt_manual"), Msg("please_paste")>>
                 /\ pc' = "read_manual"
                 /\ UNCHANGED exitCode
            ELSE /\ out' = Append(out, Msg("prompt_manual"))
                 /\ Exit(0)
  /\ UNCHANGED <<args, fs, query, text, similarity, uncaught, scorerCalls, consulted>>

(* lines 94-100: the lines of standard input up to its end, or up to a
   KeyboardInterrupt, joined *)
ReadManual ==
  /\ pc = "read_manual"
  /\ \E stdin \in TextStrings :
       LET lines == SplitLines(stdin, <<>>)
       IN  \E k \in 0..Len(lines) : text' = Join(SubSeq(lines, 1, k))
  /\ consulted' = Append(consulted, "manual")
  /\ pc' = "check_text"
  /\ UNCHANGED <<args, fs, query, manual_input, similarity, out, exitCode,
                 uncaught, scorerCalls>>

(* lines 104-108 without the sys.exit(1) of line 106 *)
CheckTextNoExit ==
  /\ pc = "check_text"
  /\ IF IsBlank(text)
       THEN out' = out \o <<Msg("no_text"), Msg("calculating")>>
       ELSE out' = Append(out, Msg("calculating"))
  /\ pc' = "score"
  /\ UNCHANGED <<args, fs, query, manual_input, text, similarity, exitCode,
                 uncaught, scorerCalls, consulted>>

(* lines 104-108 *)
CheckText ==
  /\ pc = "check_text"
  /\ IF IsBlank(text)
       THEN /\ out' = Append(out, Msg("no_text"))
            /\ Exit(1)
       ELSE /\ out' = Append(out, Msg("calculating"))
            /\ pc' = "score"
            /\ UNCHANGED exitCode
  /\ UNCHANGED <<args, fs, query, manual_input, text, similarity, uncaught,
                 scorerCalls, consulted>>

(* line 109: the call is recorded with its arguments and with whether the
   embedding step inside it raised *)
CallScorer ==
  /\ pc = "score"
  /\ \E outcome \in EmbedOutcomes :
       LET r == CalculateCosineSimilarity(outcome)
       IN  /\ out' = out \o r.printed
           /\ IF r.raised
                THEN /\ uncaught' = TRUE
                     /\ Exit(1)
                     /\ UNCHANGED similarity
                ELSE /\ similarity' = r.ret
                     /\ pc' = "present"
                     /\ UNCHANGED <<exitCode, uncaught>>
           /\ scorerCalls' = Append(scorerCalls, [query |-> query, text |-> text,
                                                embed_raised |-> outcome.raised])
  /\ UNCHANGED <<args, fs, query, manual_input, text, consulted>>

(* lines 110-122 as independent ifs: every bucket the score exceeds prints *)
PresentIfChain ==
  /\ pc = "present"
  /\ LET one(t, label) ==
           IF similarity > t THEN <<Line("interpretation", <<>>, 0, label)>> ELSE <<>>
         printed == one(VeryHighThreshold, "Very high similarity")
                      \o one(HighThreshold, "High similarity")
                      \o one(ModerateThreshold, "Moderate similarity")
                      \o one(LowThreshold, "Low similarity")
     IN  out' = out \o <<Line("score", <<>>, similarity, "")>>
                    \o (IF printed = <<>>
                          THEN <<Line("interpretation", <<>>, 0, "Very low similarity")>>
                          ELSE printed)
  /\ pc' = "done"
  /\ exitCode' = <<0>>
  /\ UNCHANGED <<args, fs, query, manual_input, text, similarity, uncaught,
                 scorerCalls, consulted>>

(* lines 110-122, and the end of main(): the score line, then the
   interpretation line *)
Present ==
  /\ pc = "present"
  /\ out' = out \o <<Line("score", <<>>, similarity, ""),
                     Line("interpretation", <<>>, 0, Classify(similarity))>>
  /\ pc' = "done"
  /\ exitCode' = <<0>>
  /\ UNCHANGED <<args, fs, query, manual_input, text, similarity, uncaught,
                 scorerCalls, consulted>>

Next ==
  \/ QueryFromArgs
  \/ QueryFromPrompt
  \/ TextFromFile
  \/ TextInline
  \/ TextFromPicker
  \/ AskManual
  \/ ReadManual
  \/ CheckText
  \/ CallScorer
  \/ Present

Spec == Init /\ [][Next]_vars

-----------------------------------------------------------------------------
(* Vocabulary of the properties *)

Printed(kind) == \E i \in 1..Len(out) : out[i].kind = kind

Terminated == pc \in {"done", "exited"}

(* the run has passed the empty-text check and reached the scorer *)
PastCheck == pc \in {"score", "present", "done"}

AllWhitespace(s) == \A i \in 1..Len(s) : s[i] \in Whitespace

Labels ==
  {"Very high similarity", "High similarity", "Moderate similarity",
   "Low similarity", "Very low similarity"}

(* the bucket table of the Result Presenter, one row per label *)
BucketOf(label, s) ==
  CASE label = "Very high similarity" -> s > VeryHighThreshold
    [] label = "High similarity" -> s > HighThreshold /\ s <= VeryHighThreshold
    [] label = "Moderate similarity" -> s > ModerateThreshold /\ s <= HighThreshold
    [] label = "Low similarity" -> s > LowThreshold /\ s <= ModerateThreshold
    [] label = "Very low similarity" -> s <= LowThreshold
    [] OTHER -> FALSE

InterpretationLines == {i \in 1..Len(out) : out[i].kind = "interpretation"}

-----------------------------------------------------------------------------
(* C1: every interpretation line that is printed carries the label of the
   bucket the score lies in (strict lower bounds 0.8, 0.6, 0.4, 0.2, and
   "Very low similarity" for everything else, negative scores included), and
   a completed run has printed exactly one such line. *)
C1_OneLabelByStrictLowerBound ==
  /\ \A i \in InterpretationLines :
       /\ out[i].label \in Labels
       /\ BucketOf(out[i].label, similarity)
  /\ pc = "done" => Cardinality(InterpretationLines) = 1

C1_Witness ==
  /\ pc = "done"
  /\ similarity < 0
  /\ out[Len(out)].kind = "interpretation"
  /\ out[Len(out)].label = "Very low similarity"

(* C2, as stated: a score of exactly 0.8 is labelled "Moderate similarity"
   and a score of 0.8001 "Very high similarity". *)
C2_AsStated ==
  \A i \in InterpretationLines :
    /\ similarity = VeryHighThreshold => out[i].label = "Moderate similarity"
    /\ similarity = VeryHighThreshold + 1 => out[i].label = "Very high similarity"

(* C2, amended: a score of exactly 0.8 is labelled "High similarity" (it is
   not above 0.8 and it is above 0.6), and a score of 0.8001 is labelled
   "Very high similarity". *)
C2_BoundaryAtPointEight ==
  \A i \in InterpretationLines :
    /\ similarity = VeryHighThreshold => out[i].label = "High similarity"
    /\ similarity = VeryHighThreshold + 1 => out[i].label = "Very high similarity"

C2_Witness ==
  /\ pc = "done"
  /\ similarity = VeryHighThreshold
  /\ out[Len(out)].label = "High similarity"

EmbeddingFailed == \E i \in 1..Len(scorerCalls) : scorerCalls[i].embed_raised

(* C5: once the embedding step has failed inside the scorer, the scorer has
   returned 0.0 to main() without raising, the run is on its way to the end
   and not on an exit path, and a completed run has printed the score line
   for 0.0 followed by "Very low similarity" and ends with exit code 0. *)
C5_EmbeddingFailureIsSoft ==
  EmbeddingFailed =>
    /\ similarity = 0
    /\ ~uncaught
    /\ pc \in {"present", "done"}
    /\ exitCode # <<1>>
    /\ pc = "done" =>
         /\ exitCode = <<0>>
         /\ out[Len(out) - 1].kind = "score"
         /\ out[Len(out) - 1].score = 0
         /\ out[Len(out)].kind = "interpretation"
         /\ out[Len(out)].label = "Very low similarity"

C5_Witness ==
  /\ EmbeddingFailed
  /\ pc = "done"
  /\ out[Len(out)].label = "Very low similarity"

(* C3, as stated: with --text "" and neither --text_file nor --select_file,
   the scorer is never reached and the run can only end with exit code 1,
   after the "No text provided" error. *)
C3_EmptyTextFlagExitsOne ==
  (args.text = Some(<<>>) /\ args.text_file = None /\ ~args.select_file) =>
    /\ scorerCalls = <<>>
    /\ Terminated => (exitCode = <<1>> /\ Printed("no_text"))

(* C4, as stated: when the query is still empty after the prompt, the scorer
   is never invoked with it and the run can only end with exit code 1. *)
C4_EmptyQueryExitsOne ==
  (pc # "query" /\ ~NonEmpty(query)) =>
    /\ \A i \in 1..Len(scorerCalls) : NonEmpty(scorerCalls[i].query)
    /\ Terminated => exitCode = <<1>>

(* C6: once the text resolution has run, a --text_file value that matched is
   the only source consulted, whatever --text and --select_file are; failing
   that, a --text value that matched is the only source consulted, whatever
   --select_file is; the dialog is opened only when neither matched.  A
   readable --text_file gives the text its content, whatever it is: when the
   content is blank the run ends with the empty-text error and no other
   source is read. *)
C6_FirstMatchingSourceWins ==
  /\ (pc \notin {"query", "text"} /\ Truthy(args.text_file)) =>
       /\ consulted = <<"text_file">>
       /\ ~Printed("opening_dialog")
       /\ ~Printed("prompt_manual")
       /\ fs[args.text_file[1]].st = "ok" =>
            /\ text = fs[args.text_file[1]].data
            /\ (Terminated /\ AllWhitespace(text)) =>
                 (exitCode = <<1>> /\ Printed("no_text"))
  /\ (pc \notin {"query", "text"} /\ ~Truthy(args.text_file) /\ Truthy(args.text)) =>
       /\ consulted = <<"text">>
       /\ text = args.text[1]
       /\ ~Printed("opening_dialog")
       /\ ~Printed("prompt_manual")
  /\ (Printed("opening_dialog") \/ \E i \in 1..Len(consulted) : consulted[i] = "picker") =>
       (~Truthy(args.text_file) /\ ~Truthy(args.text))

C6_Witness ==
  /\ Truthy(args.text_file)
  /\ Truthy(args.text)
  /\ args.select_file
  /\ fs[args.text_file[1]] = [st |-> "ok", data |-> <<>>]
  /\ pc = "exited"
  /\ Printed("no_text")
  /\ consulted = <<"text_file">>

(* C7: the scorer is invoked only with a text that holds a character that is
   not whitespace, and when the text that reaches the check after the
   resolution is empty or all whitespace, the check prints the "No text
   provided" error and ends the run with exit code 1 without a scorer call. *)
C7_BlankTextIsFatal ==
  /\ [](/\ \A i \in 1..Len(scorerCalls) : ~AllWhitespace(scorerCalls[i].text)
        /\ PastCheck => ~AllWhitespace(text))
  /\ [][(pc = "check_text" /\ AllWhitespace(text)) =>
          /\ pc' = "exited"
          /\ exitCode' = <<1>>
          /\ out' = Append(out, Msg("no_text"))
          /\ scorerCalls' = scorerCalls]_vars

C7_Witness ==
  /\ pc = "exited"
  /\ exitCode = <<1>>
  /\ NonEmpty(out)
  /\ out[Len(out)].kind = "no_text"
  /\ NonEmpty(text)
  /\ AllWhitespace(text)
  /\ consulted = <<"picker">>

(* C8: when --text_file names a path that does not exist, the run past the
   text resolution has ended with exit code 1, its last line is the error
   naming that path, the file was the only source consulted (no --text, no
   dialog, no manual input), the scorer was not invoked and no score was
   printed. *)
C8_MissingFileIsFatal ==
  (pc \notin {"query", "text"} /\ Truthy(args.text_file)
     /\ fs[args.text_file[1]].st = "missing") =>
    /\ pc = "exited"
    /\ exitCode = <<1>>
    /\ out[Len(out)] = Line("file_not_found", args.text_file[1], 0, "")
    /\ consulted = <<"text_file">>
    /\ text = <<>>
    /\ ~Printed("opening_dialog")
    /\ ~Printed("prompt_manual")
    /\ scorerCalls = <<>>
    /\ ~Printed("score")
    /\ ~Printed("interpretation")

C8_Witness ==
  /\ Truthy(args.text_file)
  /\ fs[args.text_file[1]].st = "missing"
  /\ Truthy(args.text)
  /\ args.select_file
  /\ pc = "exited"
  /\ exitCode = <<1>>

Accepts == {<<"y">>, <<"Y">>}

(* C9: the manual-input prompt is reached only after the dialog was opened
   and gave no content; an answer of 'y' or 'Y' at it leads to reading
   standard input as the text, and every other answer ends the run with exit
   code 0, with no "No text provided" error, no scorer call and no score
   output. *)
C9_ManualPromptAfterEmptyPicker ==
  /\ (pc \in {"ask_manual", "read_manual"} \/ Printed("prompt_manual")
        \/ \E i \in 1..Len(consulted) : consulted[i] = "manual") =>
       /\ NonEmpty(consulted)
       /\ consulted[1] = "picker"
       /\ Printed("opening_dialog")
       /\ Printed("no_file_selected")
       /\ pc \in {"ask_manual", "read_manual"} => ~NonEmpty(text)
  /\ Printed("prompt_manual") =>
       IF manual_input \in Accepts
         THEN /\ Printed("please_paste")
              /\ pc = "read_manual" \/ consulted = <<"picker", "manual">>
              /\ pc = "exited" => exitCode = <<1>>
         ELSE /\ pc = "exited"
              /\ exitCode = <<0>>
              /\ consulted = <<"picker">>
              /\ ~Printed("please_paste")
              /\ ~Printed("no_text")
              /\ scorerCalls = <<>>
              /\ ~Printed("score")
              /\ ~Printed("interpretation")

C9_Witness ==
  /\ Printed("prompt_manual")
  /\ manual_input = <<"Y">>
  /\ consulted = <<"picker", "manual">>
  /\ NonEmpty(text)
  /\ pc = "done"

(* C10: the scorer is invoked at most once, and only with the resolved query
   and text after the empty-text check has passed; a score line is printed
   only after a scorer call and an interpretation line only right after the
   score line, each at most once; a run that has ended has printed the score
   line and one interpretation line if and only if the scorer was invoked,
   and a run that ended through an exit path has printed neither. *)
C10_LinearPipeline ==
  /\ Len(scorerCalls) <= 1
  /\ NonEmpty(scorerCalls) =>
       /\ pc \in {"present", "done"}
       /\ scorerCalls[1].query = query
       /\ scorerCalls[1].text = text
       /\ NonEmpty(consulted)
       /\ Printed("calculating")
       /\ ~Printed("no_text")
       /\ ~AllWhitespace(text)
  /\ Count(out, "score") <= 1
  /\ Count(out, "interpretation") <= 1
  /\ Printed("score") => NonEmpty(scorerCalls)
  /\ \A i \in InterpretationLines : i > 1 /\ out[i - 1].kind = "score"
  /\ Terminated =>
       (NonEmpty(scorerCalls) <=> (Printed("score") /\ Printed("interpretation")))
  /\ pc = "done" => NonEmpty(scorerCalls)
  /\ pc = "exited" => (~Printed("score") /\ ~Printed("interpretation"))

C10_Witness ==
  /\ pc = "done"
  /\ Len(scorerCalls) = 1
  /\ consulted = <<"picker", "manual">>
  /\ out[Len(out) - 1].kind = "score"
  /\ out[Len(out)].kind = "interpretation"

=============================================================================
